---------------------------- MODULE Spec2Model ----------------------------
(***************************************************************************)
(* Model of src/src/cache/Cache.ts (plotly-graph-card): the interval cache *)
(* of time series observations.  A Cache owns, per series key, the list of *)
(* covered ranges and the list of observations, plus the promise chain     *)
(* `busy` that serialises update().                                        *)
(*                                                                         *)
(* Ranges are pairs <<start, end>> of integers, observations are records   *)
(* [timestamp, fake_boundary_datapoint].  A series key is the tuple of the *)
(* parts that the code joins with "::".                                    *)
(***************************************************************************)
EXTENDS Integers, Sequences, FiniteSets, TLC

VARIABLES
    ranges,     \* Cache.ranges: series key -> sequence of TimestampRange
    histories,  \* Cache.histories: series key -> sequence of EntityState
    busy,       \* Cache.busy: index in ops of the promise it holds, 0 = Promise.resolve()
    ops,        \* the update() calls made so far, each with its promise and its tasks
    now,        \* Date.now()
    lastCall    \* the last Series Store operation invoked directly (StoreSpec)

vars == <<ranges, histories, busy, ops, now, lastCall>>

---------------------------------------------------------------------------
(* Bounds of the model *)

\* number of update() calls
MaxUpdates == 2
\* the ranges handed to subtractRanges directly lie in 0..MaxPoint
MaxPoint == 4
\* timestamps of the observations handed to add() directly run over 0..MaxTs
MaxTs == 2

\* Number.POSITIVE_INFINITY / Number.NEGATIVE_INFINITY of removeOutsideRange,
\* beyond every timestamp of the model
Infinity == 1000
NegInfinity == 0 - Infinity

---------------------------------------------------------------------------
(* Small helpers *)

Min(a, b) == IF a <= b THEN a ELSE b
Max(a, b) == IF a >= b THEN a ELSE b

\* o[k] ?? []
Get(o, k) == IF k \in DOMAIN o THEN o[k] ELSE <<>>
\* o[k] = v
Put(o, k, v) == [x \in DOMAIN o \cup {k} |-> IF x = k THEN v ELSE o[x]]
\* the empty object {}
EmptyObject == [x \in {} |-> <<>>]

\* Array.prototype.filter: the elements of s at the indices in keep, in order
FilterIdx(s, keep) ==
    [p \in 1..Cardinality(keep) |->
        s[CHOOSE i \in keep : Cardinality({j \in keep : j <= i}) = p]]

\* The value of a stable sort of s by the keys key[i]: the element at index i
\* goes after those with a smaller key and those with the same key before it.
SortPosition(key, i) ==
    Cardinality({j \in DOMAIN key : key[j] < key[i] \/ (key[j] = key[i] /\ j < i)}) + 1
StableSort(s, key) ==
    [p \in 1..Len(s) |-> s[CHOOSE i \in 1..Len(s) : SortPosition(key, i) = p]]

---------------------------------------------------------------------------
(* Range arithmetic: ./date-ranges *)

\* sort by start
SortRanges(rs) == StableSort(rs, [i \in 1..Len(rs) |-> rs[i][1]])

\* two ranges are merged when the next one starts at most one unit after the
\* end of the current one (inclusive integer ranges, adjacency at distance 1)
Mergeable(prev, next) == next[1] <= prev[2] + 1

RECURSIVE MergeSorted(_, _)
MergeSorted(acc, rs) ==
    IF rs = <<>> THEN acc
    ELSE IF acc # <<>> /\ Mergeable(acc[Len(acc)], Head(rs))
         THEN MergeSorted(
                 [acc EXCEPT ![Len(acc)] =
                     <<acc[Len(acc)][1], Max(acc[Len(acc)][2], Head(rs)[2])>>],
                 Tail(rs))
         ELSE MergeSorted(Append(acc, Head(rs)), Tail(rs))

compactRanges(rs) ==
    CHOOSE result \in {MergeSorted(<<>>, sorted) : sorted \in {SortRanges(rs)}} : TRUE

Intersects(c, t) == c[1] <= t[2] /\ c[2] >= t[1]

\* the gaps of one target: walk the subtracted ranges, emit the gap before
\* each one that intersects the target, move the cursor past it, and emit the
\* rest of the target at the end
RECURSIVE SubtractWalk(_, _, _)
\* (mutant: the gap before a covered range runs up to its start)
SubtractWalkToStart(cursor, t, cs) ==
    IF cs = <<>> THEN (IF cursor <= t[2] THEN << <<cursor, t[2]>> >> ELSE <<>>)
    ELSE IF Intersects(Head(cs), t)
         THEN (IF cursor < Head(cs)[1] THEN << <<cursor, Head(cs)[1]>> >> ELSE <<>>)
              \o SubtractWalk(Max(cursor, Head(cs)[2] + 1), t, Tail(cs))
         ELSE SubtractWalk(cursor, t, Tail(cs))

SubtractWalk(cursor, t, cs) ==
    IF cs = <<>> THEN (IF cursor <= t[2] THEN << <<cursor, t[2]>> >> ELSE <<>>)
    ELSE IF Intersects(Head(cs), t)
         THEN (IF cursor < Head(cs)[1] THEN << <<cursor, Head(cs)[1] - 1>> >> ELSE <<>>)
              \o SubtractWalk(Max(cursor, Head(cs)[2] + 1), t, Tail(cs))
         ELSE SubtractWalk(cursor, t, Tail(cs))

RECURSIVE subtractRanges(_, _)
subtractRanges(targets, subtracted) ==
    IF targets = <<>> THEN <<>>
    ELSE SubtractWalk(Head(targets)[1], Head(targets), subtracted)
         \o subtractRanges(Tail(targets), subtracted)

---------------------------------------------------------------------------
(* Series descriptors and keys *)

isEntityIdAttrConfig(entity) == "entity" \in DOMAIN entity /\ "attribute" \in DOMAIN entity
isEntityIdStatisticsConfig(entity) ==
    "entity" \in DOMAIN entity /\ "statistic" \in DOMAIN entity /\ "period" \in DOMAIN entity
isEntityIdStateConfig(entity) == "entity" \in DOMAIN entity

\* getEntityKey throws for a descriptor of none of the three shapes
Malformed(entity) ==
    ~isEntityIdAttrConfig(entity) /\ ~isEntityIdStatisticsConfig(entity)
        /\ ~isEntityIdStateConfig(entity)

getEntityKey(entity) ==
    IF isEntityIdAttrConfig(entity) THEN <<entity.entity, entity.attribute>>
    ELSE IF isEntityIdStatisticsConfig(entity)
         THEN <<entity.entity, "statistics", entity.statistic, entity.period>>
    ELSE <<entity.entity>>

StateEntity == [entity |-> "a"]
AttrEntity == [entity |-> "a", attribute |-> "x"]
StatisticsEntity == [entity |-> "a", statistic |-> "mean", period |-> "hour"]
MalformedEntity == [name |-> "a"]

---------------------------------------------------------------------------
(* Series Store: add, clearCache, removeOutsideRange *)

Obs(t, fake) == [timestamp |-> t, fake_boundary_datapoint |-> fake]

\* h.sort((a, b) => a.timestamp - b.timestamp): stable
SortObs(h) == StableSort(h, [i \in 1..Len(h) |-> h[i].timestamp])

\* (mutant: every boundary point is dropped, the first one too)
DropBoundaryAtFirstToo(h) ==
    FilterIdx(h, {i \in 1..Len(h) : ~h[i].fake_boundary_datapoint})

\* h.filter((x, i) => i == 0 || !x.fake_boundary_datapoint), indices from 1 here
DropBoundary(h) ==
    FilterIdx(h, {i \in 1..Len(h) : i = 1 \/ ~h[i].fake_boundary_datapoint})

\* (mutant: the duplicates are kept)
DropDuplicatesKept(h) == h

\* h.filter((_, i) => h[i - 1]?.timestamp !== h[i].timestamp)
DropDuplicates(h) ==
    FilterIdx(h, {i \in 1..Len(h) : i = 1 \/ h[i - 1].timestamp # h[i].timestamp})

\* the observation sequence add() leaves for a series
\* (each step is applied to the value of the step before it)
addHistory(h, states) ==
    CHOOSE result \in {DropDuplicates(kept) :
                          kept \in {DropBoundary(sorted) :
                                       sorted \in {SortObs(pushed) : pushed \in {h \o states}}}} : TRUE

\* the covered ranges add() leaves for a series
addRange(rs, range) == compactRanges(Append(rs, range))

\* Cache.add on the cache c = [ranges, histories]
add(c, entity, states, range) ==
    LET entityKey == getEntityKey(entity)
    IN [histories |-> Put(c.histories, entityKey,
                          addHistory(Get(c.histories, entityKey), states)),
        ranges |-> Put(c.ranges, entityKey, addRange(Get(c.ranges, entityKey), range))]

\* the scan of history.filter in removeOutsideRange: first and last are
\* sequences of length 0 (undefined) or 1
RECURSIVE TrimScan(_, _, _, _, _)
TrimScan(history, range, first, last, kept) ==
    IF history = <<>> THEN first \o kept \o last
    ELSE LET datum == Head(history)
         IN IF datum.timestamp <= range[1]
            THEN TrimScan(Tail(history), range, <<datum>>, last, kept)
            ELSE IF last = <<>> /\ datum.timestamp >= range[2]
            THEN TrimScan(Tail(history), range, first, <<datum>>, kept)
            ELSE TrimScan(Tail(history), range, first, last, Append(kept, datum))

trimHistory(history, range) == TrimScan(history, range, <<>>, <<>>, <<>>)

\* (mutant: the two ranges taken away reach up to the ends of the range)
trimRangesToEnds(rs, range) ==
    subtractRanges(rs, << <<NegInfinity, range[1]>>, <<range[2], Infinity>> >>)

trimRanges(rs, range) ==
    subtractRanges(rs, << <<NegInfinity, range[1] - 1>>, <<range[2] + 1, Infinity>> >>)

\* mapValues over this.ranges and over this.histories
removeOutsideRange(c, range) ==
    [ranges |-> [k \in DOMAIN c.ranges |-> trimRanges(c.ranges[k], range)],
     histories |-> [k \in DOMAIN c.histories |-> trimHistory(c.histories[k], range)]]

clearCache == [ranges |-> EmptyObject, histories |-> EmptyObject]

\* Cache.getHistory on the cache c: getEntityKey throws for a malformed
\* descriptor, otherwise this.histories[key] || []
getHistory(c, entity) ==
    IF Malformed(entity) THEN [threw |-> TRUE, value |-> <<>>]
    ELSE [threw |-> FALSE, value |-> Get(c.histories, getEntityKey(entity))]

---------------------------------------------------------------------------
(* Fetch adapter and boundary reconciliation: fetchSingleRange *)

\* The observations that really happened, the same for every series: one at
\* every even timestamp.
RealObservation(t) == t % 2 = 0

\* (mutant: the window starts at startT)
fetchWindowAtGap(gap, t) == <<gap[1], Min(gap[2], t)>>

\* the window [start, end] asked of the adapter for the gap [startT, endT]
\* when Date.now() is t
fetchWindow(gap, t) == <<gap[1] - 1, Min(gap[2], t)>>

\* (mutant: the end of the range is taken as exclusive)
fetchedRangeExclusive(gap, t) == <<gap[1], Min(gap[2], t) - 1>>

\* the range fetchSingleRange returns for the gap [startT, endT]
fetchedRange(gap, t) == <<gap[1], Min(gap[2], t)>>

RECURSIVE RealIn(_, _)
RealIn(from, to) ==
    IF from > to THEN <<>>
    ELSE (IF RealObservation(from) THEN <<Obs(from, FALSE)>> ELSE <<>>)
         \o RealIn(from + 1, to)

\* What fetchStates / fetchStatistics answer for a window: the real
\* observations in it, and with carry a copy of the last earlier observation
\* placed at the start of the window when none happened there.
adapterHistory(window, carry) ==
    IF carry /\ window[1] <= window[2] /\ ~RealObservation(window[1])
           /\ \E t \in 0..window[1] : RealObservation(t)
    THEN <<Obs(window[1], FALSE)>> \o RealIn(window[1], window[2])
    ELSE RealIn(window[1], window[2])

\* history[0].fake_boundary_datapoint = true
markBoundary(history) ==
    IF history = <<>> THEN history
    ELSE [history EXCEPT ![1].fake_boundary_datapoint = TRUE]

---------------------------------------------------------------------------
(* Update coordinator: Cache.update *)

\* (mutant: every update chains on a promise of its own)
chainOnResolved(b) == 0

\* the promise the next update() chains on, given this.busy
chainOn(b) == b

Settled(i) == IF i = 0 THEN TRUE ELSE ops[i].status \in {"resolved", "rejected"}

\* (mutant: without the catch, the callback runs only after a resolved promise)
canRunAfterResolved(op) ==
    op.status = "queued" /\ (IF op.pred = 0 THEN TRUE ELSE ops[op.pred].status = "resolved")

\* this.busy.catch(() => {}).then(...): the callback runs once the promise
\* chained on has settled, whether it resolved or rejected
canRun(op) == op.status = "queued" /\ Settled(op.pred)

\* one entity's async callback: a task of the update
Task(entity, gaps, idx, st, t) ==
    [entity |-> entity, gaps |-> gaps, idx |-> idx, st |-> st,
     window |-> IF st = "fetching" THEN fetchWindow(gaps[idx], t) ELSE <<>>,
     range |-> IF st = "fetching" THEN fetchedRange(gaps[idx], t) ELSE <<>>]

\* (mutant: the gaps are walked from the last one to the first)
startTaskRightToLeft(entity, rs, range, t) ==
    IF Malformed(entity) THEN Task(entity, <<>>, 0, "rejected", t)
    ELSE LET gaps == subtractRanges(<<range>>, Get(rs, getEntityKey(entity)))
             rangesToFetch == [k \in 1..Len(gaps) |-> gaps[Len(gaps) + 1 - k]]
         IN IF rangesToFetch = <<>> THEN Task(entity, rangesToFetch, 0, "done", t)
            ELSE Task(entity, rangesToFetch, 1, "fetching", t)

\* (mutant: the error of a malformed descriptor is swallowed)
startTaskSwallowed(entity, rs, range, t) ==
    IF Malformed(entity) THEN Task(entity, <<>>, 0, "done", t)
    ELSE LET rangesToFetch == subtractRanges(<<range>>, Get(rs, getEntityKey(entity)))
         IN IF rangesToFetch = <<>> THEN Task(entity, rangesToFetch, 0, "done", t)
            ELSE Task(entity, rangesToFetch, 1, "fetching", t)

\* the callback up to its first await: key, gaps, and the first fetch issued
startTask(entity, rs, range, t) ==
    IF Malformed(entity) THEN Task(entity, <<>>, 0, "rejected", t)
    ELSE LET rangesToFetch == subtractRanges(<<range>>, Get(rs, getEntityKey(entity)))
         IN IF rangesToFetch = <<>> THEN Task(entity, rangesToFetch, 0, "done", t)
            ELSE Task(entity, rangesToFetch, 1, "fetching", t)

\* the callback after a fetch returned and was merged: the next gap, or the end
nextTask(task, t) ==
    IF task.idx < Len(task.gaps)
    THEN Task(task.entity, task.gaps, task.idx + 1, "fetching", t)
    ELSE Task(task.entity, task.gaps, task.idx, "done", t)

\* this.ranges[entityKey] ??= [] for every well-formed entity of the list
ensureKeys(rs, entities) ==
    LET keys == {getEntityKey(entities[n]) : n \in {m \in 1..Len(entities) : ~Malformed(entities[m])}}
    IN [k \in DOMAIN rs \cup keys |-> Get(rs, k)]

\* (mutant: Promise.allSettled, which resolves once every task has settled)
promiseAllSettled(status, tasks) ==
    IF status # "running" THEN status
    ELSE IF \A n \in 1..Len(tasks) : tasks[n].st \in {"done", "rejected"} THEN "resolved"
    ELSE "running"

\* await Promise.all(promises): rejected with the first rejected task, resolved
\* when every task is done; a settled promise stays as it is
promiseAll(status, tasks) ==
    IF status # "running" THEN status
    ELSE IF \E n \in 1..Len(tasks) : tasks[n].st = "rejected" THEN "rejected"
    ELSE IF \A n \in 1..Len(tasks) : tasks[n].st = "done" THEN "resolved"
    ELSE "running"

Fetching(i) == \E n \in 1..Len(ops[i].tasks) : ops[i].tasks[n].st = "fetching"

\* No then-callback is ready to run: the microtask queue is empty, so that a
\* fetch may settle.
Idle == \A i \in 1..Len(ops) : ~canRun(ops[i])

\* The windows asked for: one inside the other, so that the wider one has a
\* gap on each side of it; and the lists of series: two series, and a
\* malformed descriptor before a well-formed one.
Windows == {<<2, 2>>, <<1, 3>>}
EntityLists == {<<StateEntity, AttrEntity>>, <<MalformedEntity, StateEntity>>}

Init ==
    /\ ranges = EmptyObject
    /\ histories = EmptyObject
    /\ busy = 0
    /\ ops = <<>>
    /\ now = 1
    /\ lastCall = [op |-> "none"]

\* update(range, removeOutsideRange, entities, ...) is called: the operation
\* is chained on this.busy and becomes this.busy
Update(range, rm, entities) ==
    /\ Len(ops) < MaxUpdates
    /\ ops' = Append(ops,
                [range |-> range, removeOutsideRange |-> rm, entities |-> entities,
                 pred |-> chainOn(busy), status |-> "queued", tasks |-> <<>>,
                 startOrder |-> 0, clamped |-> FALSE, overlapped |-> FALSE,
                 cleared |-> FALSE])
    /\ busy' = Len(ops) + 1
    /\ UNCHANGED <<ranges, histories, now, lastCall>>

\* the then-callback of operation i runs up to await Promise.all: the trim,
\* and every entity's callback up to its first fetch
Run(i) ==
    /\ i \in 1..Len(ops)
    /\ canRun(ops[i])
    /\ LET op == ops[i]
           c0 == [ranges |-> ranges, histories |-> histories]
       IN \E c1 \in {IF op.removeOutsideRange THEN removeOutsideRange(c0, op.range) ELSE c0} :
          \E tasks \in {[n \in 1..Len(op.entities) |->
                           startTask(op.entities[n], c1.ranges, op.range, now)]} :
          /\ ranges' = ensureKeys(c1.ranges, op.entities)
          /\ histories' = c1.histories
          /\ ops' = [ops EXCEPT ![i] =
                [op EXCEPT !.tasks = tasks,
                           !.status = promiseAll("running", tasks),
                           !.startOrder = 1 + Cardinality({k \in 1..Len(ops) : ops[k].status # "queued"}),
                           !.clamped = op.range[2] > now,
                           !.overlapped = \E k \in 1..Len(ops) : k # i /\ Fetching(k)]]
    /\ UNCHANGED <<busy, now, lastCall>>

\* the fetch of task n of operation i returns: add(), then the next gap's fetch
FetchReturn(i, n, carry) ==
    /\ Idle
    /\ i \in 1..Len(ops) /\ n \in 1..Len(ops[i].tasks)
    /\ ops[i].tasks[n].st = "fetching"
    /\ LET task == ops[i].tasks[n]
           history == markBoundary(adapterHistory(task.window, carry))
           tasks == [ops[i].tasks EXCEPT ![n] = nextTask(task, now)]
       IN \E c \in {add([ranges |-> ranges, histories |-> histories],
                        task.entity, history, task.range)} :
          /\ ranges' = c.ranges
          /\ histories' = c.histories
          /\ ops' = [ops EXCEPT ![i].tasks = tasks,
                                ![i].status = promiseAll(ops[i].status, tasks)]
    /\ UNCHANGED <<busy, now, lastCall>>

\* (mutant: the gap of the failed fetch is recorded as covered, with no data)
FetchFailCovered(i, n) ==
    /\ Idle
    /\ i \in 1..Len(ops) /\ n \in 1..Len(ops[i].tasks)
    /\ ops[i].tasks[n].st = "fetching"
    /\ LET tasks == [ops[i].tasks EXCEPT ![n].st = "rejected"]
       IN ops' = [ops EXCEPT ![i].tasks = tasks,
                             ![i].status = promiseAll(ops[i].status, tasks)]
    /\ \E c \in {add([ranges |-> ranges, histories |-> histories],
                     ops[i].tasks[n].entity, <<>>, ops[i].tasks[n].range)} :
          ranges' = c.ranges /\ histories' = c.histories
    /\ UNCHANGED <<busy, now, lastCall>>

\* the fetch of task n of operation i fails: the callback's promise rejects
FetchFail(i, n) ==
    /\ Idle
    /\ i \in 1..Len(ops) /\ n \in 1..Len(ops[i].tasks)
    /\ ops[i].tasks[n].st = "fetching"
    /\ LET tasks == [ops[i].tasks EXCEPT ![n].st = "rejected"]
       IN ops' = [ops EXCEPT ![i].tasks = tasks,
                             ![i].status = promiseAll(ops[i].status, tasks)]
    /\ UNCHANGED <<ranges, histories, busy, now, lastCall>>

\* clearCache() is called, whatever the queue is doing
ClearCache ==
    /\ ranges' = clearCache.ranges
    /\ histories' = clearCache.histories
    /\ ops' = [i \in 1..Len(ops) |->
                [ops[i] EXCEPT !.cleared = @ \/ ops[i].status # "queued"]]
    /\ UNCHANGED <<busy, now, lastCall>>

\* Time passes.  Once every window lies in the past Date.now() no longer
\* changes what update() does, and the clock of the model stops.
Tick ==
    /\ \E w \in Windows : now < w[2]
    /\ now' = now + 1
    /\ UNCHANGED <<ranges, histories, busy, ops, lastCall>>

Next ==
    \/ \E range \in Windows, rm \in BOOLEAN, entities \in EntityLists :
          Update(range, rm, entities)
    \/ \E i \in 1..Len(ops) : Run(i)
    \/ \E i \in 1..Len(ops) : \E n \in 1..Len(ops[i].tasks), carry \in BOOLEAN :
          FetchReturn(i, n, carry)
    \/ \E i \in 1..Len(ops) : \E n \in 1..Len(ops[i].tasks) : FetchFail(i, n)
    \/ ClearCache
    \/ Tick

Spec == Init /\ [][Next]_vars

\* The event loop runs a callback that is ready, and a fetch issued to the
\* adapter settles (it returns or it fails): as long as one of these steps is
\* possible, one of them is eventually taken.
Progress ==
    \/ \E i \in 1..Len(ops) : Run(i)
    \/ \E i \in 1..Len(ops) : \E n \in 1..Len(ops[i].tasks) :
          (\E carry \in BOOLEAN : FetchReturn(i, n, carry)) \/ FetchFail(i, n)
FairSpec == Spec /\ WF_vars(Progress)

---------------------------------------------------------------------------
(* Updates only: no trim, no clearCache, no failing fetch, and lists that    *)
(* may name the same series twice.                                            *)

RepeatingLists == {<<StateEntity, StateEntity>>, <<StateEntity, AttrEntity>>}

RepeatingNext ==
    \/ \E range \in Windows, entities \in RepeatingLists : Update(range, FALSE, entities)
    \/ \E i \in 1..Len(ops) : Run(i)
    \/ \E i \in 1..Len(ops) : \E n \in 1..Len(ops[i].tasks), carry \in BOOLEAN :
          FetchReturn(i, n, carry)
    \/ Tick

RepeatingSpec == Init /\ [][RepeatingNext]_vars

---------------------------------------------------------------------------
(* The Series Store on its own: add, removeOutsideRange and clearCache are  *)
(* called directly, with any observation list, flags and range.             *)

StoreTimes == 0..MaxTs
StoreObs == {Obs(t, fake) : t \in StoreTimes, fake \in BOOLEAN}
\* the lists of at most two observations, in any order and with any flags
StoreStates == {<<>>} \cup {<<x>> : x \in StoreObs} \cup {<<x, y>> : x \in StoreObs, y \in StoreObs}
StoreRanges == {<<s, e>> : s \in StoreTimes, e \in StoreTimes} \ {<<s, e>> \in StoreTimes \X StoreTimes : s > e}

AddCall(entity, states, range) ==
    /\ \E c \in {add([ranges |-> ranges, histories |-> histories], entity, states, range)} :
          /\ ranges' = c.ranges
          /\ histories' = c.histories
    /\ lastCall' = [op |-> "add", entity |-> entity, states |-> states]
    /\ UNCHANGED <<busy, ops, now>>

TrimCall(range) ==
    /\ \E c \in {removeOutsideRange([ranges |-> ranges, histories |-> histories], range)} :
          /\ ranges' = c.ranges
          /\ histories' = c.histories
    /\ lastCall' = [op |-> "trim", range |-> range]
    /\ UNCHANGED <<busy, ops, now>>

ClearCall ==
    /\ ranges' = clearCache.ranges
    /\ histories' = clearCache.histories
    /\ lastCall' = [op |-> "clear"]
    /\ UNCHANGED <<busy, ops, now>>

\* the descriptors getHistory is called with: the series that add is called
\* for, a series never added, and a malformed descriptor
StoreEntities == {StatisticsEntity, StateEntity, MalformedEntity}

GetHistoryCall(entity) ==
    /\ lastCall' = [op |-> "getHistory", entity |-> entity,
                    result |-> getHistory([ranges |-> ranges, histories |-> histories], entity)]
    /\ UNCHANGED <<ranges, histories, busy, ops, now>>

StoreNext ==
    \/ \E states \in StoreStates, range \in StoreRanges : AddCall(StatisticsEntity, states, range)
    \/ \E range \in StoreRanges : TrimCall(range)
    \/ ClearCall
    \/ \E entity \in StoreEntities : GetHistoryCall(entity)

StoreSpec == Init /\ [][StoreNext]_vars

---------------------------------------------------------------------------
(* The gap computation on its own: subtractRanges([range], covered) as        *)
(* update calls it, for any target and any sorted disjoint covered ranges.    *)

SubtractRanges == {r \in (0..MaxPoint) \X (0..MaxPoint) : r[1] <= r[2]}
\* the sorted disjoint lists of at most two ranges, and Scenario B of the spec
SubtractCovered ==
    {<<>>} \cup {<<c>> : c \in SubtractRanges}
        \cup {cd \in SubtractRanges \X SubtractRanges : cd[1][2] < cd[2][1]}
ScenarioB == [target |-> <<0, 100>>, covered |-> << <<10, 20>>, <<30, 40>> >>]

SubtractCall(target, covered) ==
    /\ lastCall' = [op |-> "subtract", target |-> target, covered |-> covered,
                    result |-> subtractRanges(<<target>>, covered)]
    /\ UNCHANGED <<ranges, histories, busy, ops, now>>

SubtractNext ==
    \/ \E target \in SubtractRanges, covered \in SubtractCovered : SubtractCall(target, covered)
    \/ SubtractCall(ScenarioB.target, ScenarioB.covered)

SubtractSpec == Init /\ [][SubtractNext]_vars

InRange(p, r) == r[1] <= p /\ p <= r[2]
InRanges(p, rs) == \E x \in 1..Len(rs) : InRange(p, rs[x])

\* C14: the gaps subtract returns for a target and sorted disjoint covered
\* ranges are well-formed, sorted, pairwise disjoint and inside the target,
\* and every point of the target is either covered or in exactly one gap,
\* never both; Scenario B yields [[0,9],[21,29],[41,100]].
SubtractPartitionsTarget ==
    lastCall.op = "subtract" =>
        LET gaps == lastCall.result
            target == lastCall.target
        IN /\ \A x \in 1..Len(gaps) :
                  gaps[x][1] <= gaps[x][2] /\ (target[1] <= gaps[x][1] /\ gaps[x][2] <= target[2])
           /\ \A x \in 1..(Len(gaps) - 1) : gaps[x][2] < gaps[x + 1][1]
           /\ \A p \in target[1]..target[2] :
                  /\ InRanges(p, lastCall.covered) = ~InRanges(p, gaps)
                  /\ Cardinality({x \in 1..Len(gaps) : InRange(p, gaps[x])}) <= 1
           /\ (\A p \in target[1]..target[2] : InRanges(p, lastCall.covered)) => gaps = <<>>
           /\ (target = ScenarioB.target /\ lastCall.covered = ScenarioB.covered) =>
                  gaps = << <<0, 9>>, <<21, 29>>, <<41, 100>> >>

\* C14 witness: a target with covered ranges inside it and a gap before,
\* between and after them
SubtractedThreeGaps ==
    /\ lastCall.op = "subtract"
    /\ Len(lastCall.covered) = 2
    /\ Len(lastCall.result) = 3
    /\ lastCall.target[2] <= MaxPoint

---------------------------------------------------------------------------
(* Properties of the Series Store *)

StrictlyAscending(h) == \A i \in 1..(Len(h) - 1) : h[i].timestamp < h[i + 1].timestamp
BoundaryOnlyFirst(h) == \A i \in 2..Len(h) : ~h[i].fake_boundary_datapoint

\* C7: after an add call, whatever the cache held before and whatever list,
\* flags and range were added, the series' observations are strictly
\* ascending by timestamp and only the first one may carry the boundary flag.
AddKeepsSortedAndBoundaryFirst ==
    lastCall.op = "add" =>
        LET h == histories[getEntityKey(lastCall.entity)]
        IN StrictlyAscending(h) /\ BoundaryOnlyFirst(h)

\* C7 witness: an add has left three observations, the first a boundary point
AddMergedThree ==
    /\ lastCall.op = "add"
    /\ Len(histories[getEntityKey(lastCall.entity)]) = 3
    /\ histories[getEntityKey(lastCall.entity)][1].fake_boundary_datapoint

Flagged(h) == {i \in 1..Len(h) : h[i].fake_boundary_datapoint}

\* C17: of the observations held and added, sorted by timestamp, an add
\* leaves the first one in first place, with its boundary flag if it has one,
\* and no other boundary-flagged observation: a boundary point is kept by
\* the add if and only if it is the first of the sorted combined sequence.
BoundaryKeptIffFirst ==
    [][lastCall'.op = "add" =>
          \A key \in {getEntityKey(lastCall'.entity)} :
          \A sorted \in {SortObs(Get(histories, key) \o lastCall'.states)} :
             /\ sorted # <<>> =>
                   (histories'[key] # <<>> /\ histories'[key][1] = sorted[1])
             /\ Flagged(histories'[key]) = (Flagged(sorted) \cap {1})]_vars

\* C17 witness: an add brought a boundary point and an observation, both
\* after the first observation held, and the boundary point is gone
BoundaryDroppedBehindFirst ==
    /\ lastCall.op = "add"
    /\ Len(lastCall.states) = 2
    /\ lastCall.states[1].fake_boundary_datapoint
    /\ lastCall.states[1].timestamp < lastCall.states[2].timestamp
    /\ ~lastCall.states[2].fake_boundary_datapoint
    /\ Len(histories[getEntityKey(lastCall.entity)]) = 2
    /\ histories[getEntityKey(lastCall.entity)][1].timestamp < lastCall.states[1].timestamp
    /\ histories[getEntityKey(lastCall.entity)][2] = lastCall.states[2]

\* what trim(range) is to leave of an ascending sequence: the last observation
\* at or before the start, those strictly inside, the first at or after the end
AnchorBefore(h, range) ==
    {i \in 1..Len(h) : h[i].timestamp <= range[1]
                       /\ \A j \in 1..Len(h) : h[j].timestamp <= range[1] => j <= i}
AnchorAfter(h, range) ==
    {i \in 1..Len(h) : h[i].timestamp >= range[2]
                       /\ \A j \in 1..Len(h) : h[j].timestamp >= range[2] => j >= i}
Inside(h, range) ==
    {i \in 1..Len(h) : range[1] < h[i].timestamp /\ h[i].timestamp < range[2]}
TrimExpected(h, range) ==
    FilterIdx(h, AnchorBefore(h, range) \cup Inside(h, range) \cup AnchorAfter(h, range))

\* C8: a trim to a range with start < end leaves of every ascending series
\* exactly TrimExpected of it.
TrimLeavesAnchorsAndInside ==
    [][(lastCall'.op = "trim" /\ lastCall'.range[1] < lastCall'.range[2]) =>
          \A k \in DOMAIN histories :
             StrictlyAscending(histories[k]) =>
                histories'[k] = TrimExpected(histories[k], lastCall'.range)]_vars

\* C11: getHistory never fails: called with any descriptor in any state of
\* the cache it returns the series' observations, and the empty sequence for
\* a series the cache does not hold.
GetHistoryNeverFails ==
    lastCall.op = "getHistory" =>
        /\ ~lastCall.result.threw
        /\ lastCall.result.value =
               (IF getEntityKey(lastCall.entity) \in DOMAIN histories
                THEN histories[getEntityKey(lastCall.entity)] ELSE <<>>)

---------------------------------------------------------------------------
(* Properties of the update coordinator *)

Started(i) == ops[i].status # "queued"
Completed(i) == ops[i].status \in {"resolved", "rejected"}
EntitiesOf(i) == {ops[i].entities[n] : n \in 1..Len(ops[i].entities)}
NoFetchIssued(i) == \A n \in 1..Len(ops[i].tasks) : ops[i].tasks[n].gaps = <<>>
WithinWindow(inner, outer) == outer[1] <= inner[1] /\ inner[2] <= outer[2]

\* update j repeats update i: it ran after update i completed successfully,
\* for a window inside that of i and series of i, with no trim from the call
\* of i on and no clearCache since i ran
Repeats(i, j) ==
    /\ i < j /\ Started(j)
    /\ ops[i].status = "resolved"
    /\ WithinWindow(ops[j].range, ops[i].range)
    /\ EntitiesOf(j) \subseteq EntitiesOf(i)
    /\ \A k \in (i + 1)..j : ~ops[k].removeOutsideRange
    /\ ~ops[i].cleared

\* C1 as stated: an update that repeats an earlier one issues no fetch.
RepeatedUpdateFetchesNothing ==
    \A i \in 1..Len(ops) : \A j \in 1..Len(ops) : Repeats(i, j) => NoFetchIssued(j)

\* C1 amended: an update that repeats an earlier one whose window had ended
\* when it ran issues no fetch.
RepeatedPastUpdateFetchesNothing ==
    \A i \in 1..Len(ops) : \A j \in 1..Len(ops) :
        (Repeats(i, j) /\ ~ops[i].clamped) => NoFetchIssued(j)

\* C1 witness: the first update fetched and completed, the second repeats it
PastUpdateRepeated ==
    /\ Len(ops) >= 2
    /\ Repeats(1, 2) /\ ~ops[1].clamped
    /\ ~NoFetchIssued(1)
    /\ Len(ops[2].tasks) = 2

\* C2: no update starts its trim and gap computation while a fetch of another
\* update is pending.
NoUpdateRunsDuringAnother == \A i \in 1..Len(ops) : ~ops[i].overlapped

\* C3: the updates start in the order in which they were called.
UpdatesStartInCallOrder ==
    \A i \in 1..Len(ops) : Started(i) => ops[i].startOrder = i

\* C3 witness: the second update has started after the first one failed
SecondStartedAfterFailure ==
    /\ Len(ops) >= 2
    /\ ops[1].status = "rejected"
    /\ \E n \in 1..Len(ops[1].tasks) :
          ~Malformed(ops[1].tasks[n].entity) /\ ops[1].tasks[n].st = "rejected"
    /\ Started(2)

\* C4: an update that has completed has no fetch in flight.
CompletedUpdateHasNoFetchInFlight ==
    \A i \in 1..Len(ops) : Completed(i) => ~Fetching(i)

RanAndCompleted(i) ==
    IF i \in 1..Len(ops)
    THEN Completed(i) /\ Len(ops[i].tasks) = Len(ops[i].entities)
    ELSE FALSE
\* C5: every update that was called eventually runs its callbacks and
\* completes.
EveryUpdateCompletes ==
    \A i \in 1..MaxUpdates : [](Len(ops) >= i => <>RanAndCompleted(i))

\* C5 witness: the second update has fetched and completed after the first
\* one failed
SecondCompletedAfterFailure ==
    /\ Len(ops) >= 2
    /\ ops[1].status = "rejected"
    /\ ops[2].status = "resolved"
    /\ ~NoFetchIssued(2)

\* C6: a task that has ended, failed or not, has fetched every gap of its
\* series.
EndedTaskFetchedEveryGap ==
    \A i \in 1..Len(ops) : \A n \in 1..Len(ops[i].tasks) :
        ops[i].tasks[n].st \in {"done", "rejected"} =>
            ops[i].tasks[n].idx = Len(ops[i].tasks[n].gaps)

\* a fetch of task n of update i is issued in this step
Issued(i, n) ==
    /\ ops'[i].tasks[n].st = "fetching"
    /\ \/ i > Len(ops)
       \/ n > Len(ops[i].tasks)
       \/ ops[i].tasks[n].idx # ops'[i].tasks[n].idx
\* the fetch of task n of update i returns in this step
Returned(i, n) ==
    /\ ops[i].tasks[n].st = "fetching"
    /\ \/ ops'[i].tasks[n].st = "done"
       \/ ops'[i].tasks[n].idx # ops[i].tasks[n].idx
GapOf(task) == task.gaps[task.idx]

\* C9 as stated: every fetch in flight asks the adapter for a window that
\* starts one unit before its gap, and is to record its gap as computed.
FetchRecordsGapAsComputed ==
    \A i \in 1..Len(ops) : \A n \in 1..Len(ops[i].tasks) :
        ops[i].tasks[n].st = "fetching" =>
            /\ ops[i].tasks[n].window[1] = GapOf(ops[i].tasks[n])[1] - 1
            /\ ops[i].tasks[n].range = GapOf(ops[i].tasks[n])

\* C9 amended: a fetch asks the adapter for the window from one unit before
\* the start of its gap to the earlier of the gap's end and the current time,
\* and the add that follows it records the range from the start of the gap to
\* that same end.
FetchRecordsClampedGap ==
    [][/\ \A i \in 1..Len(ops') : \A n \in 1..Len(ops'[i].tasks) :
             Issued(i, n) =>
                 ops'[i].tasks[n].window =
                     <<GapOf(ops'[i].tasks[n])[1] - 1, Min(GapOf(ops'[i].tasks[n])[2], now)>>
       /\ \A i \in 1..Len(ops) : \A n \in 1..Len(ops[i].tasks) :
             Returned(i, n) =>
                 ranges'[getEntityKey(ops[i].tasks[n].entity)] =
                     compactRanges(Append(Get(ranges, getEntityKey(ops[i].tasks[n].entity)),
                         <<GapOf(ops[i].tasks[n])[1], ops[i].tasks[n].window[2]>>))]_vars

\* C9 witness: a fetch for a gap that ends after the current time has
\* returned and its range is covered
ClampedFetchRecorded ==
    \E i \in 1..Len(ops) : \E n \in 1..Len(ops[i].tasks) :
        /\ ops[i].tasks[n].st = "done"
        /\ Len(ops[i].tasks[n].gaps) = 1
        /\ ops[i].clamped
        /\ ops[i].tasks[n].gaps[1][1] <= ops[i].tasks[n].gaps[1][2] - 1
        /\ ~ops[i].cleared
        /\ Get(ranges, getEntityKey(ops[i].tasks[n].entity)) # <<>>

\* C10: the covered ranges of every series have start <= end, are sorted by
\* start, and no two of them overlap or are adjacent.
CoveredRangesWellFormed ==
    \A k \in DOMAIN ranges :
        /\ \A x \in 1..Len(ranges[k]) : ranges[k][x][1] <= ranges[k][x][2]
        /\ \A x \in 1..(Len(ranges[k]) - 1) : ranges[k][x][2] + 1 < ranges[k][x + 1][1]

HasMalformed(op) == \E m \in 1..Len(op.entities) : Malformed(op.entities[m])

\* C12: in every step, the task of a malformed descriptor is rejected with no
\* gap computed and no fetch issued, and in an update with a malformed
\* descriptor every well-formed series has its gaps computed against its
\* coverage and its first fetch issued when the update runs, fails only by a
\* fetch of its own, and has the range of a returned fetch covered.
MalformedAbortsOnlyItself ==
    [][\A i \in 1..Len(ops') : \A n \in 1..Len(ops'[i].tasks) :
          IF Malformed(ops'[i].tasks[n].entity)
          THEN /\ ops'[i].tasks[n].st = "rejected"
               /\ ops'[i].tasks[n].gaps = <<>>
               /\ ops'[i].tasks[n].idx = 0
               /\ ops'[i].tasks[n].window = <<>>
          ELSE HasMalformed(ops'[i]) =>
               /\ ~Started(i) =>
                     /\ ops'[i].tasks[n].gaps =
                            subtractRanges(<<ops[i].range>>,
                                Get(ranges', getEntityKey(ops'[i].tasks[n].entity)))
                     /\ ops'[i].tasks[n].st =
                            (IF ops'[i].tasks[n].gaps = <<>> THEN "done" ELSE "fetching")
               /\ ops'[i].tasks[n].st = "rejected" =>
                     (Started(i) /\ ops[i].tasks[n].st \in {"fetching", "rejected"})
               /\ (Started(i) /\ Returned(i, n)) =>
                     \E x \in 1..Len(ranges'[getEntityKey(ops[i].tasks[n].entity)]) :
                         WithinWindow(ops[i].tasks[n].range,
                                      ranges'[getEntityKey(ops[i].tasks[n].entity)][x])]_vars

\* C12 witness: an update with a malformed descriptor has failed, and its
\* well-formed series was fetched and merged
MalformedSiblingMerged ==
    \E i \in 1..Len(ops) : \E n \in 1..Len(ops[i].tasks) :
        /\ HasMalformed(ops[i]) /\ ops[i].status = "rejected"
        /\ ~Malformed(ops[i].tasks[n].entity)
        /\ ops[i].tasks[n].st = "done" /\ ops[i].tasks[n].idx >= 1
        /\ ~ops[i].cleared
        /\ Get(histories, getEntityKey(ops[i].tasks[n].entity)) # <<>>

TaskFailed(i) == \E n \in 1..Len(ops[i].tasks) : ops[i].tasks[n].st = "rejected"
TasksSettled(i) ==
    \A n \in 1..Len(ops[i].tasks) : ops[i].tasks[n].st \in {"done", "rejected"}

\* C13: an update has completed with failure only if a fetch of its own
\* failed or a descriptor of its own was malformed, it has completed
\* successfully only if none did, and it has completed once each of its
\* series has ended; whatever happened to the updates before it.
FailureSurfacedPerCall ==
    \A i \in 1..Len(ops) :
        /\ ops[i].status = "rejected" => TaskFailed(i)
        /\ ops[i].status = "resolved" => ~TaskFailed(i)
        /\ (Started(i) /\ TaskFailed(i)) => ops[i].status = "rejected"
        /\ (Started(i) /\ TasksSettled(i)) => Completed(i)

\* C13 witness: the first update failed by a fetch of its own, and the second
\* one, which fetched for both its series, completed successfully
FailureNotInherited ==
    /\ Len(ops) >= 2
    /\ ops[1].status = "rejected" /\ ~HasMalformed(ops[1])
    /\ ops[2].status = "resolved"
    /\ \A n \in 1..Len(ops[2].tasks) : ops[2].tasks[n].idx >= 1

\* C15: the gaps of a task lie from left to right; its first fetch is issued
\* when the update runs, and the fetch for its next gap is issued only in the
\* step in which the fetch for the gap before it returns and its range is
\* merged into the covered ranges.
GapsFetchedInOrderOneAtATime ==
    [][\A i \in 1..Len(ops') : \A n \in 1..Len(ops'[i].tasks) :
          /\ \A k \in 1..(Len(ops'[i].tasks[n].gaps) - 1) :
                 ops'[i].tasks[n].gaps[k][2] < ops'[i].tasks[n].gaps[k + 1][1]
          /\ Issued(i, n) =>
                 IF ops'[i].tasks[n].idx = 1 THEN ~Started(i)
                 ELSE /\ Started(i)
                      /\ ops[i].tasks[n].st = "fetching"
                      /\ ops[i].tasks[n].idx = ops'[i].tasks[n].idx - 1
                      /\ \E x \in 1..Len(ranges'[getEntityKey(ops[i].tasks[n].entity)]) :
                             WithinWindow(ops[i].tasks[n].range,
                                          ranges'[getEntityKey(ops[i].tasks[n].entity)][x])]_vars

\* C15 witness: of two series of one update with two gaps each, the second
\* is at its second gap while the first gap of the first is still in flight
SecondSeriesAhead ==
    \E i \in 1..Len(ops) :
        /\ Len(ops[i].tasks) = 2
        /\ Len(ops[i].tasks[1].gaps) = 2 /\ Len(ops[i].tasks[2].gaps) = 2
        /\ ops[i].tasks[1].st = "fetching" /\ ops[i].tasks[1].idx = 1
        /\ ops[i].tasks[2].st = "fetching" /\ ops[i].tasks[2].idx = 2

\* the instants at which coverage is compared
Instants == 0..MaxPoint

\* C16: in the step in which an update with removeOutsideRange runs, every
\* series of the cache is left covered exactly where it was covered inside
\* the range, with no covered range reaching outside it, and the gaps of the
\* update are computed against that trimmed coverage.
TrimPrecedesGapsAndIntersectsCoverage ==
    [][\A i \in 1..Len(ops) :
          (~Started(i) /\ ops'[i].status # "queued" /\ ops[i].removeOutsideRange) =>
              /\ \A k \in DOMAIN ranges :
                    /\ \A p \in Instants :
                          InRanges(p, ranges'[k]) =
                              (InRanges(p, ranges[k]) /\ InRange(p, ops[i].range))
                    /\ \A x \in 1..Len(ranges'[k]) :
                          WithinWindow(ranges'[k][x], ops[i].range)
              /\ \A n \in 1..Len(ops'[i].tasks) :
                    ~Malformed(ops'[i].tasks[n].entity) =>
                        ops'[i].tasks[n].gaps =
                            subtractRanges(<<ops[i].range>>,
                                ranges'[getEntityKey(ops'[i].tasks[n].entity)])]_vars

\* C16 witness: the first update covered [1,3] for its series, and the second
\* one, with removeOutsideRange and the range [2,2], has run and left [2,2]
\* covered for a series it does not list
TrimmedToNarrowerRange ==
    /\ Len(ops) >= 2
    /\ ops[1].range = <<1, 3>> /\ ops[1].status = "resolved"
    /\ ~ops[1].clamped /\ ~ops[1].cleared
    /\ ops[2].removeOutsideRange /\ ops[2].range = <<2, 2>> /\ Started(2)
    /\ HasMalformed(ops[2])
    /\ Get(ranges, getEntityKey(AttrEntity)) = << <<2, 2>> >>

\* C18: in the step in which a fetch fails, the covered ranges and the
\* observations of every series stay as they were: the gap is not recorded
\* as covered.
FailedFetchChangesNothing ==
    [][\A i \in 1..Len(ops) : \A n \in 1..Len(ops[i].tasks) :
          (ops[i].tasks[n].st = "fetching" /\ ops'[i].tasks[n].st = "rejected") =>
              (ranges' = ranges /\ histories' = histories)]_vars

\* C18 witness: the fetch for the first gap of a series failed in the first
\* update, and the second update, for the same window, has that same gap
\* for the series
GapRequestedAgainAfterFailure ==
    /\ Len(ops) >= 2
    /\ ~ops[1].cleared /\ ~ops[2].removeOutsideRange /\ Started(2)
    /\ ops[2].range = ops[1].range
    /\ \E n \in 1..Len(ops[1].tasks) : \E m \in 1..Len(ops[2].tasks) :
          /\ ops[1].tasks[n].st = "rejected" /\ ops[1].tasks[n].idx = 1
          /\ ops[2].tasks[m].entity = ops[1].tasks[n].entity
          /\ ops[2].tasks[m].idx >= 1
          /\ ops[2].tasks[m].gaps[1] = ops[1].tasks[n].gaps[1]

\* every update so far was made without removeOutsideRange, no clearCache
\* came after one of them ran, and none of their series failed
OnlySuccessfulUpdates ==
    \A i \in 1..Len(ops) :
        ~ops[i].removeOutsideRange /\ ~ops[i].cleared /\ ~TaskFailed(i)

\* C19: after successful updates only, with no trim and no clearCache, every
\* real observation whose timestamp lies in a covered range of a series is
\* among the observations getHistory returns for that series.
CoveredObservationsAreCached ==
    OnlySuccessfulUpdates =>
        \A entity \in {StateEntity, AttrEntity} : \A p \in Instants :
            (RealObservation(p) /\ InRanges(p, Get(ranges, getEntityKey(entity)))) =>
                \E q \in 1..Len(getHistory([ranges |-> ranges, histories |-> histories], entity).value) :
                    getHistory([ranges |-> ranges, histories |-> histories], entity).value[q].timestamp = p

\* C20: the gaps of any two fetches issued for the same series key, by the
\* same update or by two of them, are disjoint.
NoGapFetchedTwice ==
    \A i \in 1..Len(ops) : \A j \in 1..Len(ops) :
    \A n \in 1..Len(ops[i].tasks) : \A m \in 1..Len(ops[j].tasks) :
    \A k \in 1..ops[i].tasks[n].idx : \A l \in 1..ops[j].tasks[m].idx :
        (/\ <<i, n, k>> # <<j, m, l>>
         /\ getEntityKey(ops[i].tasks[n].entity) = getEntityKey(ops[j].tasks[m].entity)) =>
            ~Intersects(ops[i].tasks[n].gaps[k], ops[j].tasks[m].gaps[l])

===========================================================================
